---- MODULE Spec2Model ----
(***************************************************************************)
(* Audio censorship and clip extraction engine of podcast-automation       *)
(* (src/audio_processor.py).  Audio is a sequence of one sample per        *)
(* millisecond, which is the resolution of every offset the code computes. *)
(* A sample is <<id, gain>>: id p > 0 is the p-th millisecond of the       *)
(* recording, id -j < 0 the j-th millisecond of the tone, id 0 a padding   *)
(* frame; gain is the volume in percent.                                   *)
(***************************************************************************)
EXTENDS Integers, Sequences, FiniteSets, TLC

VARIABLES files, beep_sound, pc, censor_timestamps, audio_file_path, audio,
          sorted_timestamps, i, result, best_clips, clip_paths, last_extract,
          synthesised, constructions, done, files_before, stage,
          censored_audio, calls,
          listing, audio_files, start_episode, h_pc, h_idx, attempted,
          max_wait, check_interval, elapsed, checks, status_code, w_pc,
          w_result

vars == <<files, beep_sound, pc, censor_timestamps, audio_file_path, audio,
          sorted_timestamps, i, result, best_clips, clip_paths, last_extract,
          synthesised, constructions, done, files_before, stage,
          censored_audio, calls,
          listing, audio_files, start_episode, h_pc, h_idx, attempted,
          max_wait, check_interval, elapsed, checks, status_code, w_pc,
          w_result>>

\* the state of the worker pool, of the episode pipeline and of the
\* historical batch, untouched by the calls of the audio processor
pool_vars == <<done, files_before>>

pipe_vars == <<stage, censored_audio, calls>>

hist_vars == <<listing, audio_files, start_episode, h_pc, h_idx, attempted>>

\* the state of the wait for the upload container
wait_vars == <<max_wait, check_interval, elapsed, checks, status_code, w_pc,
               w_result>>

\* the state of the clip operations, untouched by the censor operations
clip_vars == <<best_clips, clip_paths, last_extract>>

----------------------------------------------------------------------------
(* Bounds of the model *)

\* length of the recording, in ms
AudioMs == 1200
\* length of a beep asset shorter than the censor window, in ms
ShortBeepMs == 300
\* length of a beep asset longer than the censor window, in ms
LongBeepMs == 700
\* largest number of censor points in one list
MaxPoints == 2
\* largest number of clip specs in one list
MaxClips == 3
\* timestamps are multiples of 1/Resolution ms
Resolution == 4
\* length of the one long clip list
LongBatch == 11
\* constructions of the processor that are told apart
MaxConstructions == 2
\* largest number of files in the folder of historical episodes
MaxFiles == 3

(* Constants of the program *)

\* duration = 0.5, used as int(duration * 1000)
CensorDurationMs == 500
\* Sine(1000).to_audio_segment(duration=1000)
SynthBeepMs == 1000
\* clip.fade_in(100).fade_out(100)
FadeMs == 100
\* full volume, in percent
FullGain == 100
\* a slice may come up at most 2 ms short before it is an error
MissingFrameLimit == 2

----------------------------------------------------------------------------
(* Arithmetic *)

Min(a, b) == IF a < b THEN a ELSE b

Max(a, b) == IF a > b THEN a ELSE b

\* int(seconds * 1000): truncation toward zero of a timestamp given in
\* units of 1/Resolution ms
ToMs(q) == IF q >= 0 THEN q \div Resolution ELSE -((-q) \div Resolution)

\* seconds + duration, in the unit of the timestamps
PlusDuration(q) == q + CensorDurationMs * Resolution

----------------------------------------------------------------------------
(* Audio segments *)

\* the decoded recording: n ms, each sample its own position
Recording(n) == [p \in 1..n |-> <<p, FullGain>>]

\* a tone of n ms
Tone(n) == [j \in 1..n |-> <<-j, FullGain>>]

\* a zero-volume padding frame
Silence == <<0, 0>>

Repeat(x, n) == [k \in 1..n |-> x]

\* Python's data[s:e] on a byte string, 0-based, negative offsets counted
\* from the end
PyIdx(n, k) == IF k < 0 THEN Max(n + k, 0) ELSE Min(k, n)

PySlice(data, s, e) ==
    LET a == PyIdx(Len(data), s)
        b == PyIdx(Len(data), e)
    IN  IF a < b THEN SubSeq(data, a + 1, b) ELSE <<>>

\* AudioSegment._parse_position: a negative offset counts from the end
ParsePosition(n, val) == IF val < 0 THEN n - (-val) ELSE val

\* AudioSegment.__getitem__(slice(start, stop)): the result, or an error
\* (TooManyMissingFrames) when the data is more than the limit short of the
\* expected length
GetItem(seg, start, stop) ==
    LET n == Len(seg)
        s == ParsePosition(n, Min(start, n))
        e == ParsePosition(n, Min(stop, n))
        data == PySlice(seg, s, e)
        missing_frames == (e - s) - Len(data)
    IN  IF missing_frames # 0 /\ missing_frames > MissingFrameLimit
        THEN [ok |-> FALSE, data |-> <<>>]
        ELSE IF missing_frames > 0 /\ data # <<>>
        THEN [ok |-> TRUE, data |-> data \o Repeat(Silence, missing_frames)]
        ELSE [ok |-> TRUE, data |-> data]

\* seg[:stop]
SliceTo(seg, stop) == GetItem(seg, 0, stop)

\* seg[start:]
SliceFrom(seg, start) == GetItem(seg, start, Len(seg))

----------------------------------------------------------------------------
(* Files: a function from the paths that exist to their decoded content *)

\* Exists that finds no file
ExistsNever(path) == FALSE

Exists(path) == path \in DOMAIN files

Export(fs, path, data) == (path :> data) @@ fs

\* the recording, the beep asset and the default output name
\* <stem>_censored.wav
SourcePath == <<"ep">>

BeepPath == <<"assets", "beep">>

CensoredName(path) == path \o <<"censored">>

----------------------------------------------------------------------------
(* Inputs *)

CensorTimes ==
    {ms * Resolution : ms \in {-(AudioMs + 800), -600, 0, 300,
                               AudioMs - 500, AudioMs - 300, AudioMs + 300}}
    \cup {300 * Resolution + (Resolution - 1)}

\* a censor list: the k-th entry carries the reason k
CensorPoint(q, k) == [seconds |-> q, reason |-> k]

CensorLists ==
    UNION {{[k \in 1..n |-> CensorPoint(f[k], k)] : f \in [1..n -> CensorTimes]}
           : n \in 0..MaxPoints}

BeepAssets == {<<>>, Tone(ShortBeepMs), Tone(LongBeepMs)}

----------------------------------------------------------------------------
(* sorted(censor_timestamps, key=seconds): a stable insertion sort *)

\* Insert that puts x before the entries with the same timestamp
RECURSIVE InsertBeforeEqual(_, _)
InsertBeforeEqual(s, x) ==
    IF s = <<>> THEN <<x>>
    ELSE IF s[Len(s)].seconds < x.seconds THEN Append(s, x)
    ELSE Append(InsertBeforeEqual(SubSeq(s, 1, Len(s) - 1), x), s[Len(s)])

RECURSIVE Insert(_, _)
Insert(s, x) ==
    IF s = <<>> THEN <<x>>
    ELSE IF s[Len(s)].seconds <= x.seconds THEN Append(s, x)
    ELSE Append(Insert(SubSeq(s, 1, Len(s) - 1), x), s[Len(s)])

RECURSIVE Sorted(_)
Sorted(s) ==
    IF s = <<>> THEN <<>>
    ELSE Insert(Sorted(SubSeq(s, 1, Len(s) - 1)), s[Len(s)])

----------------------------------------------------------------------------
(* One iteration of the censor loop on the buffer a with the tone beep *)

CensorOne(a, beep_snd, censor) ==
    LET start_ms == ToMs(censor.seconds)
        end_ms == Min(ToMs(PlusDuration(censor.seconds)), Len(a))
        beep == SliceTo(beep_snd, CensorDurationMs)
        head == SliceTo(a, start_ms)
        tail == SliceFrom(a, end_ms)
    IN  IF beep.ok /\ head.ok /\ tail.ok
        THEN [ok |-> TRUE, data |-> head.data \o beep.data \o tail.data]
        ELSE [ok |-> FALSE, data |-> a]

----------------------------------------------------------------------------
(* Fades of extract_clip: clip.fade_in(FadeMs).fade_out(FadeMs) *)

\* AudioSegment.get_frame(index): data[index:index + 1], empty out of range
GetFrame(seg, index) == PySlice(seg, index, index + 1)

\* audioop.mul by a volume given in percent
Mul(frames, pct) ==
    [k \in 1..Len(frames) |-> <<frames[k][1], (frames[k][2] * pct) \div FullGain>>]

\* the faded frames lo..hi-1 of a fade of fade_frames frames that starts at
\* start_frame: frame k gets the volume k/fade_frames when rising,
\* 1 - k/fade_frames when falling
RECURSIVE FadeFrames(_, _, _, _, _, _)
FadeFrames(seg, start_frame, lo, hi, fade_frames, rising) ==
    IF lo >= hi THEN <<>>
    ELSE IF hi = lo + 1
    THEN LET step == (lo * FullGain) \div fade_frames
             volume_change == IF rising THEN step ELSE FullGain - step
         IN  Mul(GetFrame(seg, start_frame + lo), volume_change)
    ELSE LET mid == (lo + hi) \div 2
         IN  FadeFrames(seg, start_frame, lo, mid, fade_frames, rising)
             \o FadeFrames(seg, start_frame, mid, hi, fade_frames, rising)

\* fade(from_gain=-120, duration, start=0)
FadeIn(seg, duration) ==
    LET start == Min(Len(seg), 0)
        end == start + duration
        before_fade == Mul(SliceTo(seg, start).data, 0)
        after_fade == SliceFrom(seg, end).data
    IN  before_fade \o FadeFrames(seg, start, 0, end - start, end - start, TRUE) \o after_fade

\* fade(to_gain=-120, duration, end=inf)
FadeOut(seg, duration) ==
    LET end == Len(seg)
        start == end - duration
        before_fade == SliceTo(seg, start).data
        after_fade == Mul(SliceFrom(seg, end).data, 0)
    IN  before_fade \o FadeFrames(seg, start, 0, end - start, end - start, FALSE) \o after_fade

----------------------------------------------------------------------------
(* Clip specs and clip file names *)

ClipSpec(s, e) == [start_seconds |-> s * Resolution, end_seconds |-> e * Resolution]

ClipSpecs ==
    { ClipSpec(0, 500), ClipSpec(300, AudioMs + 300), ClipSpec(700, 300),
      ClipSpec(300, 300), ClipSpec(-300, 400), ClipSpec(-(AudioMs + 300), 500) }

ClipLists == UNION {[1..n -> ClipSpecs] : n \in 0..MaxClips}

\* one list long enough for a two-digit clip number
LongClipList == [k \in 1..LongBatch |-> ClipSpec(0, 500)]

Digit(d) == <<"0", "1", "2", "3", "4", "5", "6", "7", "8", "9">>[d + 1]

\* ClipName numbering the clips from 0
ClipNameFromZero(path, idx) ==
    path \o <<"clip", Digit((idx \div 10) % 10), Digit(idx % 10)>>

\* f"{audio_file_path.stem}_clip_{i+1:02d}.wav", i counted from 0
ClipName(path, idx) ==
    path \o <<"clip", Digit(((idx + 1) \div 10) % 10), Digit((idx + 1) % 10)>>

\* extract_clip on the files fs: the status of the call and the files after it
ExtractClip(fs, path, start_seconds, end_seconds, output_path) ==
    IF path \notin DOMAIN fs
    THEN [status |-> "FileNotFoundError", files |-> fs]
    ELSE LET start_ms == ToMs(start_seconds)
             end_ms == ToMs(end_seconds)
             clip == GetItem(fs[path], start_ms, end_ms)
         IN  IF ~clip.ok
             THEN [status |-> "TooManyMissingFrames", files |-> fs]
             ELSE [status |-> "ok",
                   files |-> Export(fs, output_path,
                                    FadeOut(FadeIn(clip.data, FadeMs), FadeMs))]

----------------------------------------------------------------------------
(* State machine *)

NoResult == [op |-> "none", status |-> "none", path |-> <<>>]

NoExtract == [status |-> "none", start_seconds |-> 0, end_seconds |-> 0,
              output_path |-> <<>>]

\* no worker pool, no episode pipeline, no historical batch is running
NoPool == done = {} /\ files_before = <<>>

NoPipeline == stage = "none" /\ censored_audio = <<>> /\ calls = <<>>

NoBatch ==
    /\ listing = <<>>
    /\ audio_files = <<>>
    /\ start_episode = 0
    /\ h_pc = "none"
    /\ h_idx = 0
    /\ attempted = <<>>

\* no wait for an upload container is running
NoWait ==
    /\ max_wait = 0
    /\ check_interval = 0
    /\ elapsed = 0
    /\ checks = 0
    /\ status_code = "none"
    /\ w_pc = "idle"
    /\ w_result = "none"

Init ==
    /\ \E asset \in BeepAssets :
          files = IF asset = <<>>
                  THEN (SourcePath :> Recording(AudioMs))
                  ELSE (SourcePath :> Recording(AudioMs)) @@ (BeepPath :> asset)
    /\ censor_timestamps \in CensorLists
    /\ beep_sound = <<>>
    /\ pc = "new"
    /\ audio_file_path = <<>>
    /\ audio = <<>>
    /\ sorted_timestamps = <<>>
    /\ i = 0
    /\ result = NoResult
    /\ best_clips = <<>>
    /\ clip_paths = <<>>
    /\ last_extract = NoExtract
    /\ synthesised = 0
    /\ constructions = 0
    /\ NoWait /\ NoPool /\ NoPipeline /\ NoBatch

\* Construct without the export of the synthesised tone
ConstructWithoutExport ==
    /\ pc \in {"new", "idle"}
    /\ IF Exists(BeepPath)
       THEN /\ beep_sound' = files[BeepPath]
            /\ UNCHANGED <<files, synthesised>>
       ELSE /\ beep_sound' = Tone(SynthBeepMs)
            /\ UNCHANGED files
            /\ synthesised' = synthesised + 1
    /\ pc' = "idle"
    /\ UNCHANGED <<censor_timestamps, audio_file_path, audio,
                   sorted_timestamps, i, result, clip_vars>>

\* AudioProcessor.__init__ with _get_beep_sound: load the asset, or
\* synthesise the tone and save it
Construct ==
    /\ pc \in {"new", "idle"}
    /\ IF Exists(BeepPath)
       THEN /\ beep_sound' = files[BeepPath]
            /\ UNCHANGED <<files, synthesised>>
       ELSE /\ beep_sound' = Tone(SynthBeepMs)
            /\ files' = Export(files, BeepPath, Tone(SynthBeepMs))
            /\ synthesised' = synthesised + 1
    /\ pc' = "idle"
    /\ UNCHANGED <<censor_timestamps, audio_file_path, audio,
                   sorted_timestamps, i, result, clip_vars>>

\* apply_censorship up to the loop: existence check, load, sort
ApplyCensorship(path) ==
    /\ pc = "idle"
    /\ audio_file_path' = path
    /\ IF ~Exists(path)
       THEN /\ result' = [op |-> "apply_censorship", status |-> "FileNotFoundError",
                          path |-> <<>>]
            /\ UNCHANGED <<pc, audio, sorted_timestamps, i>>
       ELSE /\ audio' = files[path]
            /\ sorted_timestamps' = Sorted(censor_timestamps)
            /\ i' = 1
            /\ pc' = "censoring"
            /\ result' = NoResult
    /\ UNCHANGED <<files, beep_sound, synthesised, censor_timestamps, clip_vars>>

\* CensorStep that cuts the tone of the processor itself to the window
CensorStepCutsBeep ==
    /\ pc = "censoring"
    /\ i <= Len(sorted_timestamps)
    /\ beep_sound' = SubSeq(beep_sound, 1, Min(CensorDurationMs, Len(beep_sound)))
    /\ LET r == CensorOne(audio, beep_sound, sorted_timestamps[i])
       IN  IF r.ok
           THEN /\ audio' = r.data
                /\ i' = i + 1
                /\ UNCHANGED <<pc, result>>
           ELSE /\ pc' = "idle"
                /\ result' = [op |-> "apply_censorship",
                              status |-> "TooManyMissingFrames", path |-> <<>>]
                /\ UNCHANGED <<audio, i>>
    /\ UNCHANGED <<files, synthesised, censor_timestamps, audio_file_path,
                   sorted_timestamps, clip_vars>>

\* one iteration of the loop over sorted_timestamps
CensorStep ==
    /\ pc = "censoring"
    /\ i <= Len(sorted_timestamps)
    /\ LET r == CensorOne(audio, beep_sound, sorted_timestamps[i])
       IN  IF r.ok
           THEN /\ audio' = r.data
                /\ i' = i + 1
                /\ UNCHANGED <<pc, result>>
           ELSE /\ pc' = "idle"
                /\ result' = [op |-> "apply_censorship",
                              status |-> "TooManyMissingFrames", path |-> <<>>]
                /\ UNCHANGED <<audio, i>>
    /\ UNCHANGED <<files, beep_sound, synthesised, censor_timestamps, audio_file_path,
                   sorted_timestamps, clip_vars>>

\* CensorExport with an early return for an empty censor list: nothing is
\* exported and the input path is returned
CensorExportSkipsEmpty ==
    /\ pc = "censoring"
    /\ i > Len(sorted_timestamps)
    /\ IF sorted_timestamps = <<>>
       THEN /\ UNCHANGED files
            /\ result' = [op |-> "apply_censorship", status |-> "ok",
                          path |-> audio_file_path]
       ELSE /\ files' = Export(files, CensoredName(audio_file_path), audio)
            /\ result' = [op |-> "apply_censorship", status |-> "ok",
                          path |-> CensoredName(audio_file_path)]
    /\ pc' = "idle"
    /\ UNCHANGED <<beep_sound, synthesised, censor_timestamps, audio_file_path, audio,
                   sorted_timestamps, i, clip_vars>>

\* after the loop: export to <stem>_censored.wav and return the path
CensorExport ==
    /\ pc = "censoring"
    /\ i > Len(sorted_timestamps)
    /\ files' = Export(files, CensoredName(audio_file_path), audio)
    /\ result' = [op |-> "apply_censorship", status |-> "ok",
                  path |-> CensoredName(audio_file_path)]
    /\ pc' = "idle"
    /\ UNCHANGED <<beep_sound, synthesised, censor_timestamps, audio_file_path, audio,
                   sorted_timestamps, i, clip_vars>>

\* create_clips up to the loop
CreateClips(path) ==
    /\ pc = "idle"
    /\ audio_file_path' = path
    /\ clip_paths' = <<>>
    /\ i' = 0
    /\ pc' = "clipping"
    /\ result' = NoResult
    /\ last_extract' = NoExtract
    /\ UNCHANGED <<files, beep_sound, synthesised, censor_timestamps, audio,
                   sorted_timestamps, best_clips>>

\* one iteration of the loop over best_clips: extract_clip and append its
\* path; an exception of extract_clip leaves create_clips
CreateClipStep ==
    /\ pc = "clipping"
    /\ i < Len(best_clips)
    /\ LET clip_info == best_clips[i + 1]
           start == clip_info.start_seconds
           end == clip_info.end_seconds
           output_path == ClipName(audio_file_path, i)
           r == ExtractClip(files, audio_file_path, start, end, output_path)
       IN  /\ files' = r.files
           /\ last_extract' = [status |-> r.status, start_seconds |-> start,
                               end_seconds |-> end, output_path |-> output_path]
           /\ IF r.status = "ok"
              THEN /\ clip_paths' = Append(clip_paths, output_path)
                   /\ i' = i + 1
                   /\ UNCHANGED <<pc, result>>
              ELSE /\ pc' = "idle"
                   /\ result' = [op |-> "create_clips", status |-> r.status,
                                 path |-> <<>>]
                   /\ UNCHANGED <<clip_paths, i>>
    /\ UNCHANGED <<beep_sound, synthesised, censor_timestamps, audio_file_path, audio,
                   sorted_timestamps, best_clips>>

\* after the loop: return clip_paths
CreateClipsReturn ==
    /\ pc = "clipping"
    /\ i >= Len(best_clips)
    /\ pc' = "idle"
    /\ result' = [op |-> "create_clips", status |-> "ok", path |-> <<>>]
    /\ UNCHANGED <<files, beep_sound, synthesised, censor_timestamps, audio_file_path, audio,
                   sorted_timestamps, i, best_clips, clip_paths, last_extract>>

\* the calls of the audio processor leave the rest of the state alone
Frame == UNCHANGED <<constructions, pool_vars, pipe_vars, hist_vars, wait_vars>>

Next ==
    \/ Construct /\ Frame
    \/ \E path \in {SourcePath, CensoredName(SourcePath)} :
          ApplyCensorship(path) /\ Frame
    \/ CensorStep /\ Frame
    \/ CensorExport /\ Frame

Spec == Init /\ [][Next]_vars

\* the clip operations on the recording, for every clip list
InitClips ==
    /\ files = (SourcePath :> Recording(AudioMs))
    /\ censor_timestamps = <<>>
    /\ best_clips \in ClipLists \cup {LongClipList}
    /\ beep_sound = <<>>
    /\ pc = "new"
    /\ audio_file_path = <<>>
    /\ audio = <<>>
    /\ sorted_timestamps = <<>>
    /\ i = 0
    /\ result = NoResult
    /\ clip_paths = <<>>
    /\ last_extract = NoExtract
    /\ synthesised = 0
    /\ constructions = 0
    /\ NoWait /\ NoPool /\ NoPipeline /\ NoBatch

NextClips ==
    \/ Construct /\ Frame
    \/ \E path \in {SourcePath, CensoredName(SourcePath)} :
          CreateClips(path) /\ Frame
    \/ CreateClipStep /\ Frame
    \/ CreateClipsReturn /\ Frame

SpecClips == InitClips /\ [][NextClips]_vars

----------------------------------------------------------------------------
(* create_clips with the loop body run by a pool of workers: every spec is
   taken once, in any order; an exception of extract_clip leaves create_clips
   as it does in the loop *)

PoolStart(path) ==
    /\ pc = "idle"
    /\ audio_file_path' = path
    /\ clip_paths' = <<>>
    /\ done' = {}
    /\ files_before' = files
    /\ pc' = "pool"
    /\ result' = NoResult
    /\ last_extract' = NoExtract
    /\ UNCHANGED <<files, beep_sound, synthesised, censor_timestamps, audio,
                   sorted_timestamps, i, best_clips>>

\* the loop body for the k-th spec (from 1)
WorkerStep(k) ==
    /\ pc = "pool"
    /\ k \in (1..Len(best_clips)) \ done
    /\ LET clip_info == best_clips[k]
           start == clip_info.start_seconds
           end == clip_info.end_seconds
           output_path == ClipName(audio_file_path, k - 1)
           r == ExtractClip(files, audio_file_path, start, end, output_path)
       IN  /\ files' = r.files
           /\ last_extract' = [status |-> r.status, start_seconds |-> start,
                               end_seconds |-> end, output_path |-> output_path]
           /\ IF r.status = "ok"
              THEN /\ done' = done \cup {k}
                   /\ UNCHANGED <<pc, result>>
              ELSE /\ pc' = "idle"
                   /\ result' = [op |-> "create_clips", status |-> r.status,
                                 path |-> <<>>]
                   /\ UNCHANGED done
    /\ UNCHANGED <<beep_sound, synthesised, censor_timestamps, audio_file_path, audio,
                   sorted_timestamps, i, best_clips, clip_paths, files_before>>

\* every spec is done: return the paths in input order
PoolReturn ==
    /\ pc = "pool"
    /\ done = 1..Len(best_clips)
    /\ clip_paths' = [k \in 1..Len(best_clips) |-> ClipName(audio_file_path, k - 1)]
    /\ pc' = "idle"
    /\ result' = [op |-> "create_clips", status |-> "ok", path |-> <<>>]
    /\ UNCHANGED <<files, beep_sound, synthesised, censor_timestamps, audio_file_path,
                   audio, sorted_timestamps, i, best_clips, last_extract, done,
                   files_before>>

InitPool ==
    /\ files = (SourcePath :> Recording(AudioMs))
    /\ censor_timestamps = <<>>
    /\ best_clips \in ClipLists
    /\ beep_sound = <<>>
    /\ pc = "new"
    /\ audio_file_path = <<>>
    /\ audio = <<>>
    /\ sorted_timestamps = <<>>
    /\ i = 0
    /\ result = NoResult
    /\ clip_paths = <<>>
    /\ last_extract = NoExtract
    /\ synthesised = 0
    /\ constructions = 0
    /\ NoWait /\ NoPool /\ NoPipeline /\ NoBatch

NextPool ==
    \/ Construct /\ Frame
    \/ PoolStart(SourcePath) /\ UNCHANGED <<constructions, pipe_vars, hist_vars, wait_vars>>
    \/ \E k \in 1..MaxClips : WorkerStep(k) /\ UNCHANGED <<constructions, pipe_vars, hist_vars, wait_vars>>
    \/ PoolReturn /\ UNCHANGED <<constructions, pipe_vars, hist_vars, wait_vars>>

SpecPool == InitPool /\ [][NextPool]_vars

----------------------------------------------------------------------------
(* convert_to_mp3 *)

\* wav_file_path.with_suffix('.mp3')
Mp3Name(path) == path \o <<"mp3">>

\* export(format="mp3", bitrate="192k"): the frames in a compressed container
Mp3(data) == [format |-> "mp3", bitrate |-> "192k", frames |-> data]

\* ConvertToMp3 without the existence check: the output file is opened
\* before the load fails
ConvertToMp3Unchecked(path) ==
    /\ pc = "idle"
    /\ audio_file_path' = path
    /\ IF ~Exists(path)
       THEN /\ result' = [op |-> "convert_to_mp3", status |-> "FileNotFoundError",
                          path |-> <<>>]
            /\ files' = Export(files, Mp3Name(path), Mp3(<<>>))
       ELSE /\ files' = Export(files, Mp3Name(path), Mp3(files[path]))
            /\ result' = [op |-> "convert_to_mp3", status |-> "ok",
                          path |-> Mp3Name(path)]
    /\ UNCHANGED <<pc, beep_sound, synthesised, censor_timestamps, audio,
                   sorted_timestamps, i, clip_vars>>

\* convert_to_mp3: existence check, load, export as <stem>.mp3
ConvertToMp3(path) ==
    /\ pc = "idle"
    /\ audio_file_path' = path
    /\ IF ~Exists(path)
       THEN /\ result' = [op |-> "convert_to_mp3", status |-> "FileNotFoundError",
                          path |-> <<>>]
            /\ UNCHANGED files
       ELSE /\ files' = Export(files, Mp3Name(path), Mp3(files[path]))
            /\ result' = [op |-> "convert_to_mp3", status |-> "ok",
                          path |-> Mp3Name(path)]
    /\ UNCHANGED <<pc, beep_sound, synthesised, censor_timestamps, audio,
                   sorted_timestamps, i, clip_vars>>

\* an empty list, a list that is applied and a list that raises
OpsCensorLists ==
    {<<>>, <<CensorPoint(300 * Resolution, 1)>>,
     <<CensorPoint(-(AudioMs + 800) * Resolution, 1)>>}

\* an empty list, a clip, a clip shorter than its two fades and a clip
\* that raises
OpsClipLists ==
    {<<>>, <<ClipSpec(0, 500)>>, <<ClipSpec(300, 450)>>,
     <<ClipSpec(-(AudioMs + 300), 500)>>}

\* the calls of the audio processor on the recording and on its censored
\* copy
InitOps ==
    /\ files = (SourcePath :> Recording(AudioMs))
    /\ censor_timestamps \in OpsCensorLists
    /\ best_clips \in OpsClipLists
    /\ beep_sound = <<>>
    /\ pc = "new"
    /\ audio_file_path = <<>>
    /\ audio = <<>>
    /\ sorted_timestamps = <<>>
    /\ i = 0
    /\ result = NoResult
    /\ clip_paths = <<>>
    /\ last_extract = NoExtract
    /\ synthesised = 0
    /\ constructions = 0
    /\ NoWait /\ NoPool /\ NoPipeline /\ NoBatch

\* the constructions are counted, up to MaxConstructions
NextOps ==
    \/ /\ Construct
       /\ constructions' = Min(constructions + 1, MaxConstructions)
       /\ UNCHANGED <<pool_vars, pipe_vars, hist_vars, wait_vars>>
    \/ \E path \in {SourcePath, CensoredName(SourcePath)} :
          \/ ApplyCensorship(path) /\ Frame
          \/ CreateClips(path) /\ Frame
          \/ ConvertToMp3(path) /\ Frame
    \/ CensorStep /\ Frame
    \/ CensorExport /\ Frame
    \/ CreateClipStep /\ Frame
    \/ CreateClipsReturn /\ Frame

SpecOps == InitOps /\ [][NextOps]_vars

----------------------------------------------------------------------------
(* The audio steps of process_episode: step 4 censors the recording, step 5
   cuts the clips, step 6 converts to MP3.  No step is wrapped in
   try/except: an exception of a call leaves process_episode. *)

\* the recording process_episode was given
AudioFile == SourcePath

\* step 4: censored_audio = apply_censorship(audio_file, ...)
PipeCensor ==
    /\ stage = "start"
    /\ ApplyCensorship(AudioFile)
    /\ stage' = "censor"
    /\ calls' = Append(calls, [op |-> "apply_censorship", input |-> AudioFile])
    /\ UNCHANGED censored_audio

\* step 5 called on the recording instead of the censored audio
PipeClipsOnOriginal ==
    /\ stage = "censor"
    /\ pc = "idle"
    /\ result.status = "ok"
    /\ censored_audio' = result.path
    /\ CreateClips(AudioFile)
    /\ stage' = "clips"
    /\ calls' = Append(calls, [op |-> "create_clips", input |-> AudioFile])

\* apply_censorship returned; step 5: create_clips(censored_audio, ...)
PipeClips ==
    /\ stage = "censor"
    /\ pc = "idle"
    /\ result.status = "ok"
    /\ censored_audio' = result.path
    /\ CreateClips(result.path)
    /\ stage' = "clips"
    /\ calls' = Append(calls, [op |-> "create_clips", input |-> result.path])

\* create_clips returned; step 6: convert_to_mp3(censored_audio)
PipeMp3 ==
    /\ stage = "clips"
    /\ pc = "idle"
    /\ result.status = "ok"
    /\ ConvertToMp3(censored_audio)
    /\ stage' = "mp3"
    /\ calls' = Append(calls, [op |-> "convert_to_mp3", input |-> censored_audio])
    /\ UNCHANGED censored_audio

\* convert_to_mp3 returned: the steps after the audio steps run
PipeRest ==
    /\ stage = "mp3"
    /\ pc = "idle"
    /\ result.status = "ok"
    /\ stage' = "done"
    /\ UNCHANGED <<files, beep_sound, pc, censor_timestamps, audio_file_path,
                   audio, sorted_timestamps, i, result, clip_vars, synthesised,
                   censored_audio, calls>>

\* a call of the audio steps raised: the exception leaves process_episode
PipeRaise ==
    /\ stage \in {"censor", "clips", "mp3"}
    /\ pc = "idle"
    /\ result.status \notin {"ok", "none"}
    /\ stage' = "failed"
    /\ UNCHANGED <<files, beep_sound, pc, censor_timestamps, audio_file_path,
                   audio, sorted_timestamps, i, result, clip_vars, synthesised,
                   censored_audio, calls>>

\* process_episode on a recording that exists or not, with or without a beep
\* asset, the analysis giving short censor and clip lists
InitPipeline ==
    /\ files \in {<<>>} \cup
                 {IF asset = <<>>
                  THEN (AudioFile :> Recording(AudioMs))
                  ELSE (AudioFile :> Recording(AudioMs)) @@ (BeepPath :> asset)
                  : asset \in BeepAssets}
    /\ censor_timestamps \in {l \in CensorLists : Len(l) <= 1}
    /\ best_clips \in {l \in ClipLists : Len(l) <= 1}
    /\ beep_sound = <<>>
    /\ pc = "new"
    /\ audio_file_path = <<>>
    /\ audio = <<>>
    /\ sorted_timestamps = <<>>
    /\ i = 0
    /\ result = NoResult
    /\ clip_paths = <<>>
    /\ last_extract = NoExtract
    /\ synthesised = 0
    /\ constructions = 0
    /\ stage = "start"
    /\ censored_audio = <<>>
    /\ calls = <<>>
    /\ NoWait /\ NoPool /\ NoBatch

NextPipeline ==
    \/ Construct /\ Frame
    \/ PipeCensor /\ UNCHANGED <<constructions, pool_vars, hist_vars, wait_vars>>
    \/ CensorStep /\ Frame
    \/ CensorExport /\ Frame
    \/ PipeClips /\ UNCHANGED <<constructions, pool_vars, hist_vars, wait_vars>>
    \/ CreateClipStep /\ Frame
    \/ CreateClipsReturn /\ Frame
    \/ PipeMp3 /\ UNCHANGED <<constructions, pool_vars, hist_vars, wait_vars>>
    \/ PipeRest /\ UNCHANGED <<constructions, pool_vars, hist_vars, wait_vars>>
    \/ PipeRaise /\ UNCHANGED <<constructions, pool_vars, hist_vars, wait_vars>>

SpecPipeline == InitPipeline /\ [][NextPipeline]_vars

----------------------------------------------------------------------------
(* process_historical_episode: the existence check, transcription and
   analysis, then the same three audio calls as process_episode, then the
   uploads *)

\* HistCheck without the existence check
HistCheckSkipped ==
    /\ stage = "entry"
    /\ stage' = "transcribe"
    /\ UNCHANGED <<files, beep_sound, pc, censor_timestamps, audio_file_path,
                   audio, sorted_timestamps, i, result, clip_vars, synthesised,
                   censored_audio, calls>>

\* if not audio_file.exists(): return None
HistCheck ==
    /\ stage = "entry"
    /\ stage' = IF Exists(AudioFile) THEN "transcribe" ELSE "returned_none"
    /\ UNCHANGED <<files, beep_sound, pc, censor_timestamps, audio_file_path,
                   audio, sorted_timestamps, i, result, clip_vars, synthesised,
                   censored_audio, calls>>

\* step 1: transcriber.transcribe(audio_file, transcript_path)
HistTranscribe ==
    /\ stage = "transcribe"
    /\ calls' = Append(calls, [op |-> "transcribe", input |-> AudioFile])
    /\ stage' = "analyze"
    /\ UNCHANGED <<files, beep_sound, pc, censor_timestamps, audio_file_path,
                   audio, sorted_timestamps, i, result, clip_vars, synthesised,
                   censored_audio>>

\* step 2: editor.analyze_content(transcript_data); step 3 comes next
HistAnalyze ==
    /\ stage = "analyze"
    /\ calls' = Append(calls, [op |-> "analyze_content", input |-> AudioFile])
    /\ stage' = "start"
    /\ UNCHANGED <<files, beep_sound, pc, censor_timestamps, audio_file_path,
                   audio, sorted_timestamps, i, result, clip_vars, synthesised,
                   censored_audio>>

\* step 6: the uploads to Dropbox, and the results are returned
HistUpload ==
    /\ stage = "mp3"
    /\ pc = "idle"
    /\ result.status = "ok"
    /\ calls' = Append(calls, [op |-> "upload", input |-> result.path])
    /\ stage' = "done"
    /\ UNCHANGED <<files, beep_sound, pc, censor_timestamps, audio_file_path,
                   audio, sorted_timestamps, i, result, clip_vars, synthesised,
                   censored_audio>>

InitHistorical ==
    /\ files \in {<<>>, (AudioFile :> Recording(AudioMs))}
    /\ censor_timestamps \in {l \in CensorLists : Len(l) <= 1}
    /\ best_clips \in {l \in ClipLists : Len(l) <= 1}
    /\ beep_sound = <<>>
    /\ pc = "new"
    /\ audio_file_path = <<>>
    /\ audio = <<>>
    /\ sorted_timestamps = <<>>
    /\ i = 0
    /\ result = NoResult
    /\ clip_paths = <<>>
    /\ last_extract = NoExtract
    /\ synthesised = 0
    /\ constructions = 0
    /\ stage = "entry"
    /\ censored_audio = <<>>
    /\ calls = <<>>
    /\ NoWait /\ NoPool /\ NoBatch

NextHistorical ==
    \/ Construct /\ Frame
    \/ HistCheck /\ UNCHANGED <<constructions, pool_vars, hist_vars, wait_vars>>
    \/ HistTranscribe /\ UNCHANGED <<constructions, pool_vars, hist_vars, wait_vars>>
    \/ HistAnalyze /\ UNCHANGED <<constructions, pool_vars, hist_vars, wait_vars>>
    \/ PipeCensor /\ UNCHANGED <<constructions, pool_vars, hist_vars, wait_vars>>
    \/ CensorStep /\ Frame
    \/ CensorExport /\ Frame
    \/ PipeClips /\ UNCHANGED <<constructions, pool_vars, hist_vars, wait_vars>>
    \/ CreateClipStep /\ Frame
    \/ CreateClipsReturn /\ Frame
    \/ PipeMp3 /\ UNCHANGED <<constructions, pool_vars, hist_vars, wait_vars>>
    \/ HistUpload /\ UNCHANGED <<constructions, pool_vars, hist_vars, wait_vars>>
    \/ PipeRaise /\ UNCHANGED <<constructions, pool_vars, hist_vars, wait_vars>>

SpecHistorical == InitHistorical /\ [][NextHistorical]_vars

\* the files create_clips leaves when it runs its loop in input order,
\* from the k-th spec on
RECURSIVE SequentialFiles(_, _, _, _)
SequentialFiles(fs, path, clips, k) ==
    IF k > Len(clips) THEN fs
    ELSE LET r == ExtractClip(fs, path, clips[k].start_seconds,
                              clips[k].end_seconds, ClipName(path, k - 1))
         IN  IF r.status = "ok" THEN SequentialFiles(r.files, path, clips, k + 1)
             ELSE fs

----------------------------------------------------------------------------
(* process_all_historical_episodes.  A file name is the sequence of digits
   of its episode number, as written in the name: "Episode 02.wav" is
   <<0, 2>>, a name without a number is <<>>. *)

\* extract_episode_number returns None
None == -1

\* the episode number of a name without one, for the order and the skip
UnknownEpisode == 999

\* int(match.group(1))
RECURSIVE ToInt(_)
ToInt(digits) ==
    IF digits = <<>> THEN 0
    ELSE ToInt(SubSeq(digits, 1, Len(digits) - 1)) * 10 + digits[Len(digits)]

\* DropboxHandler.extract_episode_number
ExtractEpisodeNumber(name) == IF name = <<>> THEN None ELSE ToInt(name)

\* the truth value of an episode number or None
Truthy(num) == num # None /\ num # 0

\* num if num else 999
GetEpisodeNum(name) ==
    LET num == ExtractEpisodeNumber(name)
    IN  IF Truthy(num) THEN num ELSE UnknownEpisode

\* audio_files.sort(key=get_episode_num), a stable sort: the file at
\* position j goes behind the files with a smaller key and the files with
\* the same key that come before it
SortedFiles(s) ==
    LET Before(j) == {m \in 1..Len(s) :
                        \/ GetEpisodeNum(s[m]) < GetEpisodeNum(s[j])
                        \/ GetEpisodeNum(s[m]) = GetEpisodeNum(s[j]) /\ m < j}
    IN  [k \in 1..Len(s) |->
            s[CHOOSE j \in 1..Len(s) : Cardinality(Before(j)) = k - 1]]

\* the file names a folder may hold
FileNames == {<<0>>, <<0, 2>>, <<1, 0, 0, 0>>, <<>>}

\* the directory listings: up to MaxFiles names, in any order
Listings ==
    UNION {{f \in [1..n -> FileNames] : \A j, k \in 1..n : j # k => f[j] # f[k]}
           : n \in 0..MaxFiles}

\* start_episode: absent (0 here, as None and 0 are both false) or given
StartEpisodes == {0, 3}

\* how process_historical_episode ends: it returns results, or raises a
\* network error or another exception
Outcomes == {"ok", "network_error", "error"}

\* if start_episode and episode_num < start_episode
Skips(name) ==
    LET num == ExtractEpisodeNumber(name)
        episode_num == IF Truthy(num) THEN num ELSE UnknownEpisode
    IN  start_episode # 0 /\ episode_num < start_episode

\* up to the loop: the listing is collected and sorted
BatchStart ==
    /\ h_pc = "start"
    /\ IF listing = <<>>
       THEN /\ h_pc' = "done"
            /\ UNCHANGED <<audio_files, h_idx>>
       ELSE /\ audio_files' = SortedFiles(listing)
            /\ h_idx' = 1
            /\ h_pc' = "loop"
    /\ UNCHANGED <<listing, start_episode, attempted>>

\* an iteration that skips a file before start_episode
BatchSkip ==
    /\ h_pc = "loop"
    /\ h_idx <= Len(audio_files)
    /\ Skips(audio_files[h_idx])
    /\ h_idx' = h_idx + 1
    /\ UNCHANGED <<listing, audio_files, start_episode, h_pc, attempted>>

\* BatchProcess with an exception that is not a network error ending the
\* batch
BatchProcessStopsOnError(outcome) ==
    /\ h_pc = "loop"
    /\ h_idx <= Len(audio_files)
    /\ ~Skips(audio_files[h_idx])
    /\ attempted' = Append(attempted, [file |-> audio_files[h_idx],
                                       outcome |-> outcome])
    /\ IF outcome = "error"
       THEN h_pc' = "done" /\ UNCHANGED h_idx
       ELSE h_idx' = h_idx + 1 /\ UNCHANGED h_pc
    /\ UNCHANGED <<listing, audio_files, start_episode>>

\* an iteration that calls process_historical_episode: whatever the
\* outcome, the loop goes on to the next file
BatchProcess(outcome) ==
    /\ h_pc = "loop"
    /\ h_idx <= Len(audio_files)
    /\ ~Skips(audio_files[h_idx])
    /\ attempted' = Append(attempted, [file |-> audio_files[h_idx],
                                       outcome |-> outcome])
    /\ h_idx' = h_idx + 1
    /\ UNCHANGED <<listing, audio_files, start_episode, h_pc>>

\* the loop is over
BatchEnd ==
    /\ h_pc = "loop"
    /\ h_idx > Len(audio_files)
    /\ h_pc' = "done"
    /\ UNCHANGED <<listing, audio_files, start_episode, h_idx, attempted>>

\* the state of the audio processor and of its other callers
audio_vars == <<files, beep_sound, pc, censor_timestamps, audio_file_path, audio,
                sorted_timestamps, i, result, clip_vars, synthesised,
                constructions, pool_vars, pipe_vars>>

InitBatch ==
    /\ listing \in Listings
    /\ start_episode \in StartEpisodes
    /\ audio_files = <<>>
    /\ h_pc = "start"
    /\ h_idx = 0
    /\ attempted = <<>>
    /\ files = <<>>
    /\ censor_timestamps = <<>>
    /\ best_clips = <<>>
    /\ beep_sound = <<>>
    /\ pc = "new"
    /\ audio_file_path = <<>>
    /\ audio = <<>>
    /\ sorted_timestamps = <<>>
    /\ i = 0
    /\ result = NoResult
    /\ clip_paths = <<>>
    /\ last_extract = NoExtract
    /\ synthesised = 0
    /\ constructions = 0
    /\ NoWait /\ NoPool /\ NoPipeline

NextBatch ==
    \/ BatchStart /\ UNCHANGED <<audio_vars, wait_vars>>
    \/ BatchSkip /\ UNCHANGED <<audio_vars, wait_vars>>
    \/ \E outcome \in Outcomes : BatchProcess(outcome) /\ UNCHANGED <<audio_vars, wait_vars>>
    \/ BatchEnd /\ UNCHANGED <<audio_vars, wait_vars>>

SpecBatch == InitBatch /\ [][NextBatch]_vars

----------------------------------------------------------------------------
(* The wait for the upload container, _wait_for_container_ready *)

\* the longest wait and the longest interval between two checks, in seconds
MaxWait == 5
MaxInterval == 3

\* what one status request yields: the status_code of the answer, where
\* PUBLISHED stands for every code the loop has no branch for, or the
\* RequestException of a request that failed
CheckOutcomes ==
    {"FINISHED", "ERROR", "IN_PROGRESS", "PUBLISHED", "RequestException"}

\* elapsed = 0, with the arguments of the call
WaitEnter(mw, ci) ==
    /\ w_pc = "idle"
    /\ max_wait' = mw
    /\ check_interval' = ci
    /\ elapsed' = 0
    /\ w_pc' = "loop"
    /\ UNCHANGED <<checks, status_code, w_result>>

\* WaitCheck whose clock stands still
WaitCheckNoSleep(outcome) ==
    /\ w_pc = "loop"
    /\ elapsed < max_wait
    /\ checks' = checks + 1
    /\ status_code' = outcome
    /\ IF outcome = "FINISHED"
       THEN w_pc' = "returned" /\ w_result' = "True"
       ELSE IF outcome \in {"ERROR", "RequestException"}
       THEN w_pc' = "returned" /\ w_result' = "False"
       ELSE w_pc' = "loop" /\ w_result' = w_result
    /\ UNCHANGED <<max_wait, check_interval, elapsed>>

\* one turn of the loop: the request, the branch on its status_code, and
\* for a container still in the works the sleep and elapsed += check_interval
WaitCheck(outcome) ==
    /\ w_pc = "loop"
    /\ elapsed < max_wait
    /\ checks' = checks + 1
    /\ status_code' = outcome
    /\ IF outcome = "FINISHED"
       THEN w_pc' = "returned" /\ w_result' = "True" /\ elapsed' = elapsed
       ELSE IF outcome \in {"ERROR", "RequestException"}
       THEN w_pc' = "returned" /\ w_result' = "False" /\ elapsed' = elapsed
       ELSE /\ w_pc' = "loop"
            /\ w_result' = w_result
            /\ elapsed' = elapsed + check_interval
    /\ UNCHANGED <<max_wait, check_interval>>

\* the loop ends with elapsed >= max_wait: return False
WaitTimeout ==
    /\ w_pc = "loop"
    /\ elapsed >= max_wait
    /\ w_pc' = "returned"
    /\ w_result' = "False"
    /\ UNCHANGED <<max_wait, check_interval, elapsed, checks, status_code>>

InitWait ==
    /\ files = <<>>
    /\ censor_timestamps = <<>>
    /\ best_clips = <<>>
    /\ beep_sound = <<>>
    /\ pc = "new"
    /\ audio_file_path = <<>>
    /\ audio = <<>>
    /\ sorted_timestamps = <<>>
    /\ i = 0
    /\ result = NoResult
    /\ clip_paths = <<>>
    /\ last_extract = NoExtract
    /\ synthesised = 0
    /\ constructions = 0
    /\ NoWait /\ NoPool /\ NoPipeline /\ NoBatch

NextWait ==
    \/ \E mw \in 1..MaxWait, ci \in 1..MaxInterval :
           WaitEnter(mw, ci) /\ UNCHANGED <<audio_vars, hist_vars>>
    \/ \E outcome \in CheckOutcomes :
           WaitCheck(outcome) /\ UNCHANGED <<audio_vars, hist_vars>>
    \/ WaitTimeout /\ UNCHANGED <<audio_vars, hist_vars>>

SpecWait == InitWait /\ [][NextWait]_vars

\* the thread of the upload runs on: every request comes back with an
\* answer or a failure, and every sleep ends
SpecWaitLive == SpecWait /\ WF_vars(NextWait)

----------------------------------------------------------------------------
(* Vocabulary of the properties *)

\* the audio the current or last call loaded
InputAudio == files[audio_file_path]

\* an apply_censorship call that found its source has ended
ApplyEnded ==
    /\ pc = "idle"
    /\ result.op = "apply_censorship"
    /\ result.status # "FileNotFoundError"

\* the start offset of the k-th point of the censor list, in ms
StartMs(k) == ToMs(censor_timestamps[k].seconds)

\* the j-th ms (from 1) of the tone, repeated when the tone is shorter
BeepLooped(j) == beep_sound[((j - 1) % Len(beep_sound)) + 1]

\* position p (from 1) lies in the window that starts at offset start_ms
InWindow(p, start_ms) == start_ms < p /\ p <= start_ms + CensorDurationMs

AllNonNegative ==
    \A k \in 1..Len(censor_timestamps) : censor_timestamps[k].seconds >= 0

\* the window of the k-th point lies inside the loaded audio
InRange(k) ==
    /\ censor_timestamps[k].seconds >= 0
    /\ StartMs(k) + CensorDurationMs <= Len(InputAudio)

AllInRange == \A k \in 1..Len(censor_timestamps) : InRange(k)

Abs(x) == IF x < 0 THEN -x ELSE x

NonOverlapping ==
    \A j, k \in 1..Len(censor_timestamps) :
        j # k => Abs(StartMs(j) - StartMs(k)) >= CensorDurationMs

----------------------------------------------------------------------------
(* C1: with all timestamps >= 0, the buffer of apply_censorship has the
   length of the loaded audio after every censor point of the loop, and so
   has the exported output. *)
C1_LengthPreserved ==
    AllNonNegative =>
        /\ pc = "censoring" => Len(audio) = Len(InputAudio)
        /\ ApplyEnded => /\ result.status = "ok"
                         /\ Len(files[result.path]) = Len(InputAudio)

(* C2: a censor point whose window overruns the end of the buffer
   (start < length < start + 0.5 s) is applied without error, leaves the
   length alone, keeps everything before the start and overwrites exactly
   the positions from the start to the end with the tone. *)
C2_BoundaryClamp ==
    [][ ( /\ pc = "censoring"
          /\ i <= Len(sorted_timestamps)
          /\ sorted_timestamps[i].seconds >= 0
          /\ ToMs(sorted_timestamps[i].seconds) < Len(audio)
          /\ Len(audio) < ToMs(sorted_timestamps[i].seconds) + CensorDurationMs )
        => ( /\ pc' = "censoring"
             /\ Len(audio') = Len(audio)
             /\ \A p \in 1..Len(audio) :
                   audio'[p] = IF p <= ToMs(sorted_timestamps[i].seconds)
                               THEN audio[p]
                               ELSE BeepLooped(p - ToMs(sorted_timestamps[i].seconds)) )
      ]_vars

(* C3: for in-range, pairwise non-overlapping censor points the output
   equals the input outside the windows [t, t + 0.5 s) and the tone, from
   its beginning, inside each window. *)
C3_OnlyWindowsChange ==
    (ApplyEnded /\ AllInRange /\ NonOverlapping) =>
        /\ result.status = "ok"
        /\ Len(files[result.path]) = Len(InputAudio)
        /\ \A p \in 1..Len(InputAudio) :
              LET hit == {k \in 1..Len(censor_timestamps) : InWindow(p, StartMs(k))}
              IN  files[result.path][p] =
                      IF hit = {} THEN InputAudio[p]
                      ELSE BeepLooped(p - StartMs(CHOOSE k \in hit : TRUE))

(* C4: two in-range censor points closer together than the 0.5 s window are
   applied without error and without changing the length; from the later
   start on the content is the later point's tone window, between the two
   starts it is the earlier point's tone, elsewhere it is the input. *)
C4_OverlapSafety ==
    ( /\ ApplyEnded
      /\ Len(censor_timestamps) = 2
      /\ AllInRange
      /\ Abs(StartMs(1) - StartMs(2)) < CensorDurationMs ) =>
        LET first == Min(StartMs(1), StartMs(2))
            later == Max(StartMs(1), StartMs(2))
        IN  /\ result.status = "ok"
            /\ Len(files[result.path]) = Len(InputAudio)
            /\ \A p \in 1..Len(InputAudio) :
                  files[result.path][p] =
                      IF InWindow(p, later) THEN BeepLooped(p - later)
                      ELSE IF first < p /\ p <= later THEN BeepLooped(p - first)
                      ELSE InputAudio[p]

(* C5: censoring the censored output again with the same censor list gives
   the censored output, in content and in length. *)
C5_Idempotent ==
    ( /\ CensoredName(SourcePath) \in DOMAIN files
      /\ CensoredName(CensoredName(SourcePath)) \in DOMAIN files ) =>
        files[CensoredName(CensoredName(SourcePath))] = files[CensoredName(SourcePath)]

(* C6: with an empty censor list apply_censorship raises no error, the
   buffer stays the loaded audio, and the call exports audio identical to
   the input and returns the output path. *)
C6_EmptyListUnchanged ==
    censor_timestamps = <<>> =>
        /\ pc = "censoring" => audio = InputAudio
        /\ ApplyEnded => /\ result.status = "ok"
                         /\ result.path = CensoredName(audio_file_path)
                         /\ result.path \in DOMAIN files
                         /\ files[result.path] = InputAudio

C6_Witness ==
    /\ censor_timestamps = <<>>
    /\ ApplyEnded
    /\ result.status = "ok"
    /\ audio_file_path = SourcePath

(* C7: a censor point with a negative timestamp is skipped: the loop goes
   on to the next point with the buffer, content and length, unchanged, and
   the call does not fail. *)
C7_NegativeSkipped ==
    [][ ( /\ pc = "censoring"
          /\ i <= Len(sorted_timestamps)
          /\ sorted_timestamps[i].seconds < 0 )
        => ( /\ pc' = "censoring"
             /\ i' = i + 1
             /\ audio' = audio )
      ]_vars

----------------------------------------------------------------------------
(* Clip properties, under SpecClips *)

\* an extract_clip call that found its source has ended
ExtractEnded == last_extract.status \notin {"none", "FileNotFoundError"}

(* C8: for start < end, extract_clip does not fail and the clip holds
   exactly the source positions [max(start, 0), min(end, length)), in
   order: its length is min(end, length) - max(start, 0). *)
C8_ClipRange ==
    (ExtractEnded /\ last_extract.start_seconds < last_extract.end_seconds) =>
        LET lo == Max(ToMs(last_extract.start_seconds), 0)
            hi == Min(ToMs(last_extract.end_seconds), Len(InputAudio))
        IN  /\ last_extract.status = "ok"
            /\ Len(files[last_extract.output_path]) = hi - lo
            /\ \A k \in 1..(hi - lo) :
                  files[last_extract.output_path][k][1] = lo + k

(* C9: extract_clip with end_seconds <= start_seconds fails with
   InvalidRange and writes no clip file. *)
C9_InvalidRange ==
    (ExtractEnded /\ last_extract.end_seconds <= last_extract.start_seconds) =>
        /\ last_extract.status = "InvalidRange"
        /\ last_extract.output_path \notin DOMAIN files

\* the spec fails: its range is invalid, or extracting it raises
InvalidRange(clip_info) == clip_info.end_seconds <= clip_info.start_seconds

Raises(clip_info) ==
    ~GetItem(InputAudio, ToMs(clip_info.start_seconds),
             ToMs(clip_info.end_seconds)).ok

(* C10: when create_clips has ended, whether it returned or raised, the
   clip of every spec that does not fail is on disk and the clip of every
   failing spec is not: a failing spec never aborts the batch. *)
C10_BatchIsolation ==
    ( /\ pc = "idle"
      /\ result.op = "create_clips"
      /\ audio_file_path \in DOMAIN files ) =>
        \A k \in 1..Len(best_clips) :
            (ClipName(audio_file_path, k - 1) \in DOMAIN files)
                <=> ~(InvalidRange(best_clips[k]) \/ Raises(best_clips[k]))

\* a create_clips call has ended, by return or by exception
ClipsEnded == pc = "idle" /\ result.op = "create_clips"

\* the clip extract_clip makes of the spec clip_info
ExpectedClip(clip_info) ==
    ExtractClip(SourcePath :> files[SourcePath], SourcePath,
                clip_info.start_seconds, clip_info.end_seconds,
                <<"expected">>).files[<<"expected">>]

(* C11: when create_clips has ended on a list of specs it returned one
   path per spec, in input order: the k-th path is the clip file of the k-th
   spec and holds the clip of that spec; the empty list gives the empty
   result. *)
C11_OneResultPerSpec ==
    (ClipsEnded /\ (audio_file_path \in DOMAIN files \/ best_clips = <<>>)) =>
        /\ result.status = "ok"
        /\ Len(clip_paths) = Len(best_clips)
        /\ \A k \in 1..Len(best_clips) :
              /\ clip_paths[k] = ClipName(audio_file_path, k - 1)
              /\ files[clip_paths[k]] = ExpectedClip(best_clips[k])

\* the number a two-digit clip name ends with
DigitValue(d) == CHOOSE n \in 0..9 : Digit(n) = d

NameNumber(path) ==
    DigitValue(path[Len(path) - 1]) * 10 + DigitValue(path[Len(path)])

(* C12: every clip file create_clips has written is named by the stem of
   the source, "clip" and a two-digit number, and that number is the
   1-based position in the input list of the spec whose clip the file
   holds. *)
C12_ClipNames ==
    \A path \in DOMAIN files \ {SourcePath, BeepPath} :
        /\ Len(path) = Len(SourcePath) + 3
        /\ SubSeq(path, 1, Len(SourcePath)) = SourcePath
        /\ path[Len(SourcePath) + 1] = "clip"
        /\ \A k \in Len(SourcePath) + 2 .. Len(path) :
              \E n \in 0..9 : path[k] = Digit(n)
        /\ NameNumber(path) \in 1..Len(best_clips)
        /\ files[path] = ExpectedClip(best_clips[NameNumber(path)])

\* the clip of the last spec of the long list is written, under a
\* two-digit number
C12_Witness ==
    /\ Len(best_clips) = LongBatch
    /\ ClipName(SourcePath, LongBatch - 1) \in DOMAIN files
    /\ last_extract.status = "ok"

----------------------------------------------------------------------------
(* Worker pool property, under SpecPool *)

\* the clip file names of the batch
OutputNames == {ClipName(audio_file_path, k - 1) : k \in 1..Len(best_clips)}

(* C13: in a create_clips batch run by workers in any order, the source is
   never modified, the output names are pairwise distinct and differ from
   the source, every file other than the outputs of the specs done stays as
   it was before the batch, and when the batch has ended the files are
   the files the loop in input order leaves. *)
C13_OrderIndependent ==
    (pc = "pool" \/ (ClipsEnded /\ files_before # <<>>)) =>
        /\ files[audio_file_path] = files_before[audio_file_path]
        /\ Cardinality(OutputNames) = Len(best_clips)
        /\ audio_file_path \notin OutputNames
        /\ \A path \in DOMAIN files \ OutputNames :
              path \in DOMAIN files_before /\ files[path] = files_before[path]
        /\ ClipsEnded =>
              files = SequentialFiles(files_before, audio_file_path, best_clips, 1)

----------------------------------------------------------------------------
(* Pipeline properties, under SpecPipeline *)

(* C14: the audio calls of the pipeline are apply_censorship, create_clips,
   convert_to_mp3 in this order; create_clips and convert_to_mp3 are called
   only when apply_censorship has returned its output path, and their input
   is that censored file, never the recording. *)
C14_PipelineOrder ==
    /\ \A k \in 1..Len(calls) :
          /\ k <= 3
          /\ calls[k].op = <<"apply_censorship", "create_clips", "convert_to_mp3">>[k]
          /\ calls[k].op \in {"create_clips", "convert_to_mp3"} =>
                /\ calls[1].input = AudioFile
                /\ censored_audio = CensoredName(AudioFile)
                /\ censored_audio \in DOMAIN files
                /\ calls[k].input = censored_audio
                /\ calls[k].input # AudioFile
    /\ stage \in {"clips", "mp3"} => audio_file_path = CensoredName(AudioFile)

\* the pipeline ran all three audio steps on a censored recording
C14_Witness ==
    /\ stage = "done"
    /\ Len(calls) = 3
    /\ censor_timestamps # <<>>
    /\ best_clips # <<>>
    /\ Mp3Name(censored_audio) \in DOMAIN files

(* C16: the audio steps of the pipeline are left by an exception only when
   the recording is missing. *)
C16_OnlyMissingSourceAborts ==
    stage = "failed" => AudioFile \notin DOMAIN files

\* the clip the pipeline wrote for entry k of best_clips
PipelineClip(k) == ClipName(CensoredName(AudioFile), k - 1)

(* C30: every clip the pipeline has written holds tone, not recording, over
   the whole window of every censor point whose window lies inside the range
   of the clip, at the offset of the window in the clip. *)
C30_ClipsHoldBeep ==
    \A k \in 1..Len(best_clips) :
        PipelineClip(k) \in DOMAIN files =>
            \A c \in 1..Len(censor_timestamps) :
                LET clip == files[PipelineClip(k)]
                    start_ms == ToMs(best_clips[k].start_seconds)
                    end_ms == ToMs(best_clips[k].end_seconds)
                    t == ToMs(censor_timestamps[c].seconds)
                IN  (0 <= start_ms /\ start_ms <= t /\ t + CensorDurationMs <= end_ms)
                    => \A j \in 1..CensorDurationMs :
                           /\ t - start_ms + j <= Len(clip)
                           /\ clip[t - start_ms + j][1] < 0

----------------------------------------------------------------------------
(* Missing source, under SpecOps *)

(* C15: a call of apply_censorship, extract_clip or convert_to_mp3 whose
   source file does not exist ends with FileNotFoundError and leaves every
   file as it was: nothing is created, nothing overwritten. *)
C15_MissingSource ==
    [][ \A path \in {SourcePath, CensoredName(SourcePath)} :
          /\ (ApplyCensorship(path) /\ path \notin DOMAIN files) =>
                /\ files' = files
                /\ pc' = "idle"
                /\ result' = [op |-> "apply_censorship",
                              status |-> "FileNotFoundError", path |-> <<>>]
          /\ (ConvertToMp3(path) /\ path \notin DOMAIN files) =>
                /\ files' = files
                /\ result' = [op |-> "convert_to_mp3",
                              status |-> "FileNotFoundError", path |-> <<>>]
          /\ (CreateClipStep /\ audio_file_path = path /\ path \notin DOMAIN files) =>
                /\ files' = files
                /\ last_extract'.status = "FileNotFoundError"
                /\ result'.status = "FileNotFoundError"
      ]_vars

\* each of the three calls has failed on the missing censored file
C15_Witness ==
    /\ CensoredName(SourcePath) \notin DOMAIN files
    /\ audio_file_path = CensoredName(SourcePath)
    /\ result.status = "FileNotFoundError"
    /\ result.op = "convert_to_mp3"
    /\ last_extract.status = "FileNotFoundError"

(* C17: with the beep asset absent at the start, the tone is synthesised
   at most once; after the first construction the asset file exists and
   holds the synthesised tone, and the tone of the processor, after every
   construction, is the content of that file. *)
C17_SynthesisedOnce ==
    /\ synthesised <= 1
    /\ constructions >= 1 =>
          /\ synthesised = 1
          /\ BeepPath \in DOMAIN files
          /\ files[BeepPath] = Tone(SynthBeepMs)
          /\ beep_sound = files[BeepPath]

\* the processor has been constructed more than once
C17_Witness ==
    /\ constructions = MaxConstructions
    /\ constructions > 1
    /\ synthesised = 1
    /\ pc = "idle"

----------------------------------------------------------------------------
(* Historical batch properties, under SpecBatch *)

\* the episode number of a file, a name without a number counting as 999
EpisodeNumber(name) == IF name = <<>> THEN UnknownEpisode ELSE ToInt(name)

\* the files process_historical_episode was called for
AttemptedFiles == {attempted[k].file : k \in 1..Len(attempted)}

ListedFiles == {listing[k] : k \in 1..Len(listing)}

(* C18: the files are processed in ascending order of their episode
   numbers, a file without a number counting as 999, whatever the order of
   the listing. *)
C18_AscendingOrder ==
    \A j, k \in 1..Len(attempted) :
        j < k => EpisodeNumber(attempted[j].file) <= EpisodeNumber(attempted[k].file)

\* how far the batch has come: the position in the code, then in the list
Progress ==
    (CASE h_pc = "start" -> 0 [] h_pc = "loop" -> 1 [] h_pc = "done" -> 2)
        * (Len(listing) + 2) + h_idx

\* no file is attempted twice, the loop is at the file after the ones it
\* attempted or skipped, the batch is not stuck before its end, and at the
\* end every file was attempted or lies before start_episode
BatchOnCourse ==
    /\ \A j, k \in 1..Len(attempted) :
          j # k => attempted[j].file # attempted[k].file
    /\ h_pc = "loop" =>
          h_idx = 1 + Len(attempted)
                    + Cardinality({k \in 1..(h_idx - 1) : Skips(audio_files[k])})
    /\ h_pc # "done" => ENABLED NextBatch
    /\ Progress < 3 * (Len(listing) + 2)
    /\ h_pc = "done" =>
          \A name \in ListedFiles :
              name \in AttemptedFiles \/ EpisodeNumber(name) < start_episode

(* C19: no file is attempted twice; after every outcome of a file,
   exceptions included, the loop is at the next file; the batch is never
   stuck before its end and every step brings it nearer to the end, which
   it reaches after at most 3 * (number of files + 2) steps; at the end
   every file of the folder was attempted or lies before start_episode. *)
C19_BatchSurvivesExceptions ==
    [][BatchOnCourse /\ BatchOnCourse' /\ Progress' > Progress]_vars

\* the batch has ended, and a file was attempted after an exception of
\* each kind
C19_Witness ==
    /\ h_pc = "done"
    /\ Len(attempted) = 3
    /\ attempted[1].outcome = "error"
    /\ attempted[2].outcome = "network_error"
    /\ attempted[3].outcome = "ok"

(* C20: with start_episode = N no file with an episode number below N is
   processed, and when the batch has ended every file with an episode
   number of at least N was processed. *)
C20_StartEpisode ==
    start_episode # 0 =>
        /\ \A name \in AttemptedFiles :
              name # <<>> => ToInt(name) >= start_episode
        /\ h_pc = "done" =>
              \A name \in ListedFiles :
                  (name # <<>> /\ ToInt(name) >= start_episode)
                      => name \in AttemptedFiles

----------------------------------------------------------------------------
(* Historical episode property, under SpecHistorical *)

(* C21: when the path given to process_historical_episode does not exist,
   the method returns None and no step runs: nothing is transcribed,
   analysed or uploaded, no call of the audio processor is made, and no
   file is written. *)
C21_MissingEpisode ==
    AudioFile \notin DOMAIN files =>
        /\ stage \in {"entry", "returned_none"}
        /\ calls = <<>>
        /\ pc \in {"new", "idle"}
        /\ result = NoResult
        /\ last_extract = NoExtract
        /\ DOMAIN files \subseteq {BeepPath}

\* the method has returned None
C21_Witness ==
    /\ AudioFile \notin DOMAIN files
    /\ stage = "returned_none"
    /\ pc = "idle"

----------------------------------------------------------------------------
(* Further censor properties, under Spec *)

(* C22: a censor point whose start offset is at or past the end of the
   buffer is skipped: the loop goes on to the next point with the buffer,
   content and length, unchanged, and the call does not fail. *)
C22_PastEndSkipped ==
    [][ ( /\ pc = "censoring"
          /\ i <= Len(sorted_timestamps)
          /\ ToMs(sorted_timestamps[i].seconds) >= Len(audio) )
        => ( /\ pc' = "censoring"
             /\ i' = i + 1
             /\ audio' = audio )
      ]_vars

\* the tone that fills a window of the given width: repeated when the
\* beep is shorter, cut when it is longer
BeepWindow(width) == [j \in 1..width |-> BeepLooped(j)]

(* C23: the censor step of a point that starts inside the buffer replaces
   the window from the start offset to the end offset clamped to the buffer
   length by tone of exactly that width, for every beep length. *)
C23_BeepFillsWindow ==
    [][ ( /\ pc = "censoring"
          /\ i <= Len(sorted_timestamps)
          /\ sorted_timestamps[i].seconds >= 0
          /\ ToMs(sorted_timestamps[i].seconds) < Len(audio) )
        => LET start_ms == ToMs(sorted_timestamps[i].seconds)
               end_ms == Min(start_ms + CensorDurationMs, Len(audio))
           IN  /\ pc' = "censoring"
               /\ audio' = SubSeq(audio, 1, start_ms)
                              \o BeepWindow(end_ms - start_ms)
                              \o SubSeq(audio, end_ms + 1, Len(audio))
      ]_vars

(* C24: the loop of apply_censorship runs over the points of the input
   list in ascending order of their timestamps, points with equal
   timestamps in their input order (the reason of a point is its input
   position), and each step applies the point the loop is at. *)
C24_AscendingStable ==
    [][ (pc = "censoring" /\ i <= Len(sorted_timestamps)) =>
          /\ Len(sorted_timestamps) = Len(censor_timestamps)
          /\ \A k \in 1..Len(censor_timestamps) :
                \E j \in 1..Len(sorted_timestamps) :
                    sorted_timestamps[j] = censor_timestamps[k]
          /\ \A j, k \in 1..Len(sorted_timestamps) :
                j < k =>
                    \/ sorted_timestamps[j].seconds < sorted_timestamps[k].seconds
                    \/ /\ sorted_timestamps[j].seconds = sorted_timestamps[k].seconds
                       /\ sorted_timestamps[j].reason < sorted_timestamps[k].reason
          /\ pc' = "censoring" =>
                /\ i' = i + 1
                /\ sorted_timestamps' = sorted_timestamps
                /\ audio' = CensorOne(audio, beep_sound, sorted_timestamps[i]).data
      ]_vars

\* both points of a list given in descending order have been applied
C24_Witness ==
    /\ pc = "censoring"
    /\ Len(censor_timestamps) = 2
    /\ censor_timestamps[1].seconds > censor_timestamps[2].seconds
    /\ i = 3

----------------------------------------------------------------------------
(* Further properties of the calls, under SpecOps *)

(* C25: an extract_clip call that succeeds writes the extracted slice with
   the 100 ms fade-in and the 100 ms fade-out when the slice is at least
   200 ms long, and writes the slice as it is, unfaded, when it is
   shorter. *)
C25_ShortClipUnfaded ==
    [][ (CreateClipStep /\ last_extract'.status = "ok") =>
          LET clip == GetItem(files[audio_file_path],
                              ToMs(last_extract'.start_seconds),
                              ToMs(last_extract'.end_seconds)).data
          IN  files'[last_extract'.output_path] =
                  IF Len(clip) >= 2 * FadeMs
                  THEN FadeOut(FadeIn(clip, FadeMs), FadeMs)
                  ELSE clip
      ]_vars

(* C27: once the processor is constructed, no step of apply_censorship,
   create_clips with extract_clip, or convert_to_mp3, and no later
   construction, changes the tone the processor holds. *)
C27_BeepReadOnly ==
    [][constructions >= 1 => beep_sound' = beep_sound]_vars

\* censorship, clip extraction and conversion have all run and succeeded
C27_Witness ==
    /\ constructions >= 1
    /\ beep_sound = Tone(SynthBeepMs)
    /\ censor_timestamps # <<>>
    /\ CensoredName(SourcePath) \in DOMAIN files
    /\ last_extract.status = "ok"
    /\ result = [op |-> "convert_to_mp3", status |-> "ok",
                 path |-> Mp3Name(SourcePath)]

----------------------------------------------------------------------------
(* Beep asset, under Spec *)

(* C28: a construction that finds the beep asset at its path takes the
   content of the file as the tone of the processor, unchanged, and leaves
   the file and every other file as it was; nothing is synthesised. *)
C28_AssetLoadedAsIs ==
    [][ (Construct /\ BeepPath \in DOMAIN files) =>
          /\ beep_sound' = files[BeepPath]
          /\ files' = files
          /\ synthesised' = synthesised
      ]_vars

\* the processor was constructed on the short asset
C28_Witness ==
    /\ pc = "idle"
    /\ synthesised = 0
    /\ beep_sound = Tone(ShortBeepMs)
    /\ files[BeepPath] = Tone(ShortBeepMs)

----------------------------------------------------------------------------
(* The wait for the upload container, under SpecWaitLive *)

\* ceil(a / b) for b > 0
CeilDiv(a, b) == (a + b - 1) \div b

\* what holds of the wait at every moment
WaitOutcome ==
    /\ w_result = "True" => status_code = "FINISHED"
    /\ status_code = "FINISHED" => w_pc = "returned" /\ w_result = "True"
    /\ status_code \in {"ERROR", "RequestException"} =>
           w_pc = "returned" /\ w_result = "False"
    /\ w_pc # "idle" => checks <= CeilDiv(max_wait, check_interval)
    /\ (w_pc = "returned" /\ status_code \in {"none", "IN_PROGRESS", "PUBLISHED"}) =>
           w_result = "False" /\ checks = CeilDiv(max_wait, check_interval)

(* C29: the wait returns True only on a check that reports FINISHED, returns
   False on the very check that reports ERROR or whose request fails, makes
   at most ceil(max_wait / check_interval) checks, returns False after that
   many checks of a container that stays in the works, and returns in every
   run. *)
C29_WaitReturns == []WaitOutcome /\ <>(w_pc = "returned")

\* a wait that timed out after a number of checks that the division rounds up
C29_Witness ==
    /\ w_pc = "returned"
    /\ w_result = "False"
    /\ status_code = "IN_PROGRESS"
    /\ max_wait % check_interval # 0
    /\ checks = CeilDiv(max_wait, check_interval)
    /\ checks >= 2

----------------------------------------------------------------------------
(* Offsets, under Spec *)

\* a timestamp given in units of 1/Resolution ms, rounded to the nearest ms
RoundMs(q) == (2 * q + Resolution) \div (2 * Resolution)

(* C26: for a point with timestamp t >= 0, whatever its reason, the window
   that is replaced runs from round(t) to round(t + 0.5 s), in ms, the
   resolution of the buffer: with a tone of at least 0.5 s and the window
   inside the buffer, the buffer is kept up to round(t) and from
   round(t + 0.5 s) on and holds the tone in between. *)
C26_RoundedWindow ==
    [][ ( /\ pc = "censoring"
          /\ i <= Len(sorted_timestamps)
          /\ sorted_timestamps[i].seconds >= 0
          /\ Len(beep_sound) >= CensorDurationMs
          /\ RoundMs(sorted_timestamps[i].seconds + CensorDurationMs * Resolution)
                <= Len(audio) )
        => LET start == RoundMs(sorted_timestamps[i].seconds)
               end == RoundMs(sorted_timestamps[i].seconds
                                + CensorDurationMs * Resolution)
           IN  /\ pc' = "censoring"
               /\ end - start = CensorDurationMs
               /\ audio' = SubSeq(audio, 1, start)
                              \o BeepWindow(end - start)
                              \o SubSeq(audio, end + 1, Len(audio))
      ]_vars

====
